---------------------------- MODULE Spec2Model ----------------------------
(***************************************************************************)
(* Model of src/mock-data/generate_mock_data.py: the fleet connectivity    *)
(* mock-data generator.                                                    *)
(*                                                                         *)
(* Times are seconds since an arbitrary midnight; a formatted timestamp is *)
(* the tuple <<day, hour, minute, second>> of its fixed-width fields, and  *)
(* timestamps compare field by field as the strings do character by        *)
(* character.  Uptime is held in tenths of a percent (round(x, 1)).        *)
(*                                                                         *)
(* The random module is a stream of raw variates.  A raw variate is a      *)
(* quantile u in 0..Res of the unit interval; randint, uniform and choice  *)
(* map it onto their range.  A seed fixes the stream: the model keeps the  *)
(* variates a seed has produced so far on `tape` and a second run with the *)
(* same seed reads them back from position 0.                              *)
(*                                                                         *)
(* Fields of a vehicle no property below reads (lat, lon, spd, drv, used,  *)
(* balPct, lastDisc, imei, dlBytes, ulBytes and the byte counters, codes   *)
(* and statuses of events and incidents) are left out of the records.      *)
(***************************************************************************)
EXTENDS Integers, Sequences, FiniteSets, TLC

(***************************************************************************)
(* Bounds of the model.                                                    *)
(***************************************************************************)
\* resolution of a raw variate: the quantiles 0/Res .. Res/Res
Res == 4
\* largest --vehicles and --towers values explored
MaxVehicles == 2
MaxTowers == 1
\* the classifier is explored this far around its thresholds
Margin == 5
\* longest vehicle list handed to the error-log aggregator on its own
MaxLogVehicles == 2

\* None; an absent lastErr is falsy, as the empty tuple is
None == << >>

(***************************************************************************)
(* Configuration tables.                                                   *)
(***************************************************************************)
CARRIERS ==
  << [carrier |-> "Orange ES",   mcc |-> "214", mnc |-> "03", country |-> "Spain"],
     [carrier |-> "Vodafone PT", mcc |-> "268", mnc |-> "01", country |-> "Portugal"],
     [carrier |-> "NOS PT",      mcc |-> "268", mnc |-> "03", country |-> "Portugal"],
     [carrier |-> "Movistar",    mcc |-> "214", mnc |-> "07", country |-> "Spain"],
     [carrier |-> "Vodafone ES", mcc |-> "214", mnc |-> "01", country |-> "Spain"] >>

CELL_SITES(carrier) ==
  CASE carrier = "Orange ES"   -> << [lac |-> "103", cell |-> "49885"], [lac |-> "803", cell |-> "64084"] >>
    [] carrier = "Vodafone PT" -> << [lac |-> "131", cell |-> "47723"], [lac |-> "954", cell |-> "49145"] >>
    [] carrier = "NOS PT"      -> << [lac |-> "234", cell |-> "18145"], [lac |-> "354", cell |-> "12245"] >>
    [] carrier = "Movistar"    -> << [lac |-> "496", cell |-> "25821"], [lac |-> "367", cell |-> "26890"] >>
    [] carrier = "Vodafone ES" -> << [lac |-> "703", cell |-> "56754"], [lac |-> "725", cell |-> "40532"] >>

RAT_MAP(code) ==
  CASE code = 1 -> "GSM" [] code = 2 -> "WCDMA" [] code = 4 -> "LTE"

ERROR_TYPES ==
  << "CONTEXT_DEACTIVATION", "NETWORK_TIMEOUT", "AUTH_FAILURE",
     "GPRS_DETACH", "ATTACH_REJECT", "PDP_REJECT" >>

INCIDENT_TYPES ==
  << [type |-> "3G-FALLBACK",  severity |-> "HIGH"],
     [type |-> "SIG-LOSS",     severity |-> "CRITICAL"],
     [type |-> "DATA-RETRY",   severity |-> "CRITICAL"],
     [type |-> "PERF-DEGRADE", severity |-> "MEDIUM"] >>

(***************************************************************************)
(* The random module's calls, as functions of the raw variate they draw.   *)
(***************************************************************************)
\* random.randint(lo, hi): an integer of lo..hi
RandInt(lo, hi, u) == lo + ((hi - lo) * u) \div Res

\* round(random.uniform(lo, hi), 1), in tenths
UniformTenths(lo, hi, u) == 10 * lo + ((10 * hi - 10 * lo) * u) \div Res

\* random.uniform(lo, hi) hours, in seconds; lo and hi are given in seconds
UniformSeconds(lo, hi, u) == lo + ((hi - lo) * u) \div Res

\* random.choice(seq)
Choice(seq, u) == seq[1 + ((Len(seq) - 1) * u) \div Res]

\* random.sample(pool, k): the first k elements of the pool in the order
\* the shuffle `perm` (a permutation of the catalog's indices) puts them
Sample(pool, k, perm) ==
  LET picked == SelectSeq(perm, LAMBDA i : i <= Len(pool))
  IN  [j \in 1..k |-> pool[picked[j]]]

(***************************************************************************)
(* Timestamps.                                                             *)
(***************************************************************************)
\* datetime.isoformat(): the fields of the instant t
IsoFormat(t) ==
  << t \div 86400, (t % 86400) \div 3600, (t % 3600) \div 60, t % 60 >>

\* strftime("%Y-%m-%dT%H:%M:00Z"): the seconds field is the literal 00
MinuteFormat(t) ==
  << t \div 86400, (t % 86400) \div 3600, (t % 3600) \div 60, 0 >>

\* a <= b for two fixed-width timestamp strings
TsLeq(a, b) ==
  \/ a[1] < b[1]
  \/ a[1] = b[1] /\ a[2] < b[2]
  \/ a[1] = b[1] /\ a[2] = b[2] /\ a[3] < b[3]
  \/ a[1] = b[1] /\ a[2] = b[2] /\ a[3] = b[3] /\ a[4] <= b[4]

\* list.sort(key = ..., reverse = True): stable, largest key first.  An
\* element goes after every element whose key is not smaller than its own.
RECURSIVE InsertDesc(_, _)
InsertDesc(sorted, x) ==
  IF sorted = << >> THEN << x >>
  ELSE IF TsLeq(x.key, Head(sorted).key)
       THEN << Head(sorted) >> \o InsertDesc(Tail(sorted), x)
       ELSE << x >> \o sorted

RECURSIVE SortDesc(_)
SortDesc(items) ==
  IF items = << >> THEN << >>
  ELSE InsertDesc(SortDesc(SubSeq(items, 1, Len(items) - 1)), items[Len(items)])

(***************************************************************************)
(* The health-tier classifier.                                             *)
(***************************************************************************)
assign_health_tier_reordered(signal, drops, uptime) ==
  IF (50 <= signal /\ signal < 65 /\ drops >= 3) \/ (drops >= 3 /\ uptime < 960)
  THEN "warning"
  ELSE IF signal < 50 \/ drops >= 8 \/ uptime < 900
  THEN "critical"
  ELSE IF signal < 70 \/ drops >= 2 \/ uptime < 980
  THEN "minor"
  ELSE "healthy"

assign_health_tier_conjunctive(signal, drops, uptime) ==
  IF signal < 50 /\ drops >= 8 /\ uptime < 900
  THEN "critical"
  ELSE IF (50 <= signal /\ signal < 65 /\ drops >= 3) \/ (drops >= 3 /\ uptime < 960)
  THEN "warning"
  ELSE IF signal < 70 \/ drops >= 2 \/ uptime < 980
  THEN "minor"
  ELSE "healthy"

assign_health_tier(signal, drops, uptime) ==
  IF signal < 50 \/ drops >= 8 \/ uptime < 900
  THEN "critical"
  ELSE IF (50 <= signal /\ signal < 65 /\ drops >= 3) \/ (drops >= 3 /\ uptime < 960)
  THEN "warning"
  ELSE IF signal < 70 \/ drops >= 2 \/ uptime < 980
  THEN "minor"
  ELSE "healthy"


(***************************************************************************)
(* The vehicle-record synthesizer.  `d` is the record of the raw variates  *)
(* one call of generate_vehicle draws, named after the value each becomes. *)
(***************************************************************************)
\* the health profile chosen by roll = random.random(), in hundredths
sample_profile(roll) ==
  IF roll < 10 THEN "critical"
  ELSE IF roll < 20 THEN "warning"
  ELSE IF roll < 30 THEN "minor"
  ELSE "healthy"

critical_params(d) ==
  [ signal        |-> RandInt(20, 45, d.signal),
    rat_code      |-> Choice(<<1, 2>>, d.rat),
    drops         |-> RandInt(8, 20, d.drops),
    uptime        |-> UniformTenths(85, 93, d.uptime),
    err_count     |-> RandInt(15, 40, d.err_count),
    err_types     |-> Sample(ERROR_TYPES, RandInt(3, 5, d.err_k), d.err_perm),
    pdp_attempts  |-> RandInt(100, 150, d.pdp_attempts),
    pdp_success   |-> RandInt(40, 70, d.pdp_success),
    loc_updates   |-> RandInt(200, 360, d.loc_updates),
    loc_success   |-> RandInt(100, 220, d.loc_success),
    num_events    |-> RandInt(3, 12, d.num_events),
    num_incidents |-> RandInt(1, 3, d.num_incidents) ]

warning_params(d) ==
  [ signal        |-> RandInt(55, 68, d.signal),
    rat_code      |-> Choice(<<2, 4>>, d.rat),
    drops         |-> RandInt(3, 7, d.drops),
    uptime        |-> UniformTenths(90, 97, d.uptime),
    err_count     |-> RandInt(5, 15, d.err_count),
    err_types     |-> Sample(ERROR_TYPES, RandInt(2, 3, d.err_k), d.err_perm),
    pdp_attempts  |-> RandInt(50, 90, d.pdp_attempts),
    pdp_success   |-> RandInt(30, 65, d.pdp_success),
    loc_updates   |-> RandInt(200, 300, d.loc_updates),
    loc_success   |-> RandInt(100, 180, d.loc_success),
    num_events    |-> RandInt(3, 6, d.num_events),
    num_incidents |-> RandInt(0, 1, d.num_incidents) ]

\* uniform(96, 99.5): the bounds are 960 and 995 tenths
minor_params(d) ==
  [ signal        |-> RandInt(63, 76, d.signal),
    rat_code      |-> 4,
    drops         |-> RandInt(1, 3, d.drops),
    uptime        |-> 960 + ((995 - 960) * d.uptime) \div Res,
    err_count     |-> RandInt(1, 5, d.err_count),
    err_types     |-> Sample(SubSeq(ERROR_TYPES, 1, 2), RandInt(1, 2, d.err_k), d.err_perm),
    pdp_attempts  |-> RandInt(30, 60, d.pdp_attempts),
    pdp_success   |-> RandInt(25, 45, d.pdp_success),
    loc_updates   |-> RandInt(100, 200, d.loc_updates),
    loc_success   |-> RandInt(100, 190, d.loc_success),
    num_events    |-> RandInt(2, 3, d.num_events),
    num_incidents |-> 0 ]

healthy_params_independent(d) ==
  LET err_count    == RandInt(0, 1, d.err_count)
  IN
  [ signal        |-> RandInt(75, 106, d.signal),
    rat_code      |-> 4,
    drops         |-> RandInt(0, 1, d.drops),
    uptime        |-> UniformTenths(98, 100, d.uptime),
    err_count     |-> err_count,
    err_types     |-> IF err_count > 0
                      THEN Sample(SubSeq(ERROR_TYPES, 1, 1), 1, d.err_perm)
                      ELSE << >>,
    pdp_attempts  |-> RandInt(10, 30, d.pdp_attempts),
    pdp_success   |-> RandInt(10, 30, d.pdp_success),
    loc_updates   |-> RandInt(50, 120, d.loc_updates),
    loc_success   |-> RandInt(50, 120, d.loc_success),
    num_events    |-> 1,
    num_incidents |-> 0 ]

healthy_params(d) ==
  LET err_count    == RandInt(0, 1, d.err_count)
      pdp_attempts == RandInt(10, 30, d.pdp_attempts)
      loc_updates  == RandInt(50, 120, d.loc_updates)
  IN
  [ signal        |-> RandInt(75, 106, d.signal),
    rat_code      |-> 4,
    drops         |-> RandInt(0, 1, d.drops),
    uptime        |-> UniformTenths(98, 100, d.uptime),
    err_count     |-> err_count,
    err_types     |-> IF err_count > 0
                      THEN Sample(SubSeq(ERROR_TYPES, 1, 1), 1, d.err_perm)
                      ELSE << >>,
    pdp_attempts  |-> pdp_attempts,
    pdp_success   |-> pdp_attempts - RandInt(0, 3, d.pdp_success),
    loc_updates   |-> loc_updates,
    loc_success   |-> loc_updates - RandInt(0, 5, d.loc_success),
    num_events    |-> 1,
    num_incidents |-> 0 ]

\* the profile-driven parameters
profile_params(profile, d) ==
  IF profile = "critical" THEN critical_params(d)
  ELSE IF profile = "warning" THEN warning_params(d)
  ELSE IF profile = "minor" THEN minor_params(d)
  ELSE healthy_params(d)

\* the network events, newest first
network_events(index, now, num_events, rat_code, carrier_info, site, d) ==
  LET event(e) ==
        LET evt_time == now - UniformSeconds(1800, 86400, d.ev[e + 1])
        IN  [ key |-> IsoFormat(evt_time),
              val |-> [ id          |-> << "EVT", index, e >>,
                        occurred_at |-> IsoFormat(evt_time),
                        rat_type    |-> rat_code,
                        mcc         |-> carrier_info.mcc,
                        mnc         |-> carrier_info.mnc,
                        lac         |-> site.lac,
                        cell_id     |-> site.cell ] ]
      sorted == SortDesc([i \in 1..num_events |-> event(i - 1)])
  IN  [i \in 1..num_events |-> sorted[i].val]

\* the incidents, in the order drawn
incident_list(index, now, num_incidents, d) ==
  LET incident(inc) ==
        LET inc_type == Choice(INCIDENT_TYPES, d.inc_type[inc + 1])
            inc_time == now - UniformSeconds(3600, 259200, d.inc_hours[inc + 1])
        IN  [ id       |-> << "INC", index, inc_type.type >>,
              type     |-> inc_type.type,
              severity |-> inc_type.severity,
              created  |-> IsoFormat(inc_time) ]
  IN  [i \in 1..num_incidents |-> incident(i - 1)]

last_error_any_profile(now, profile, err_count, u) ==
  IF err_count > 0
  THEN MinuteFormat(now - 60 * RandInt(10, 300, u))
  ELSE None

\* the last-error timestamp
last_error(now, profile, err_count, u) ==
  IF err_count > 0 /\ profile \in {"critical", "warning", "minor"}
  THEN MinuteFormat(now - 60 * RandInt(10, 300, u))
  ELSE None

\* the record generate_vehicle returns, given its tier; `profile` is not a
\* field of the output: the model keeps it to state properties about it
vehicle_record(index, now, d, profile, tier) ==
  LET carrier_info == Choice(CARRIERS, d.carrier)
      site         == Choice(CELL_SITES(carrier_info.carrier), d.site)
      p            == profile_params(profile, d)
  IN  [ nm          |-> << "Demo", index >>,
        imsi        |-> << "21401", index >>,
        sig         |-> p.signal,
        tier        |-> tier,
        rat         |-> RAT_MAP(p.rat_code),
        carrier     |-> carrier_info.carrier,
        mcc         |-> carrier_info.mcc,
        mnc         |-> carrier_info.mnc,
        lac         |-> site.lac,
        cell        |-> site.cell,
        drops       |-> p.drops,
        uptime      |-> p.uptime,
        incidents   |-> incident_list(index, now, p.num_incidents, d),
        events      |-> network_events(index, now, p.num_events, p.rat_code,
                                       carrier_info, site, d),
        pdpAttempts |-> p.pdp_attempts,
        pdpSuccess  |-> p.pdp_success,
        locUpdates  |-> p.loc_updates,
        locSuccess  |-> p.loc_success,
        errCount    |-> p.err_count,
        errTypes    |-> p.err_types,
        lastErr     |-> last_error(now, profile, p.err_count, d.last_err),
        country     |-> carrier_info.country,
        profile     |-> profile ]

generate_vehicle_profile_tier(index, now, d) ==
  vehicle_record(index, now, d, sample_profile(d.roll), sample_profile(d.roll))

generate_vehicle(index, now, d) ==
  LET profile == sample_profile(d.roll)
      p       == profile_params(profile, d)
  IN  vehicle_record(index, now, d, profile,
                     assign_health_tier(p.signal, p.drops, p.uptime))

(***************************************************************************)
(* The cell-tower synthesizer.  `draws` holds, for each tower, the raw     *)
(* variates its loop iteration draws.                                      *)
(***************************************************************************)
\* random.random() in hundredths
Random100(u) == (99 * u) \div Res

\* one iteration of the loop
cell_tower(t) ==
  LET carrier_info == Choice(CARRIERS, t.carrier)
  IN  [ rat     |-> Choice(<<"LTE", "WCDMA", "GSM">>, t.rat),
        carrier |-> carrier_info.carrier,
        mcc     |-> carrier_info.mcc,
        mnc     |-> carrier_info.mnc,
        lac     |-> RandInt(100, 999, t.lac),
        cell    |-> RandInt(10000, 65000, t.cell),
        weak    |-> Random100(t.weak) < 15 ]

generate_cell_towers(count, draws) ==
  [i \in 1..count |-> cell_tower(draws[i])]

(***************************************************************************)
(* The error-log aggregator.                                               *)
(***************************************************************************)
\* the entry of vehicle v for one of its error types
error_entry(v, err_type) ==
  [ ts      |-> v.lastErr,
    vehicle |-> v.nm,
    imsi    |-> v.imsi,
    carrier |-> v.carrier,
    country |-> v.country,
    rat     |-> v.rat,
    errCode |-> err_type,
    cell    |-> << v.mcc, "-", v.mnc, "-", v.lac, "-", v.cell >>,
    tier    |-> v.tier ]

\* the entries appended by the loop over the vehicles, before the sort
RECURSIVE collect_errors(_)
collect_errors(vehicles) ==
  IF vehicles = << >> THEN << >>
  ELSE LET v == Head(vehicles)
       IN  (IF v.tier = "healthy" THEN << >>
            ELSE IF v.lastErr = None THEN << >>
            ELSE [j \in 1..Len(v.errTypes) |-> error_entry(v, v.errTypes[j])])
           \o collect_errors(Tail(vehicles))

RECURSIVE collect_errors_all_tiers(_)
collect_errors_all_tiers(vehicles) ==
  IF vehicles = << >> THEN << >>
  ELSE LET v == Head(vehicles)
       IN  (IF v.lastErr = None THEN << >>
            ELSE [j \in 1..Len(v.errTypes) |-> error_entry(v, v.errTypes[j])])
           \o collect_errors_all_tiers(Tail(vehicles))

generate_error_log_all_tiers(vehicles) ==
  LET errors == collect_errors_all_tiers(vehicles)
      sorted == SortDesc([i \in 1..Len(errors) |-> [key |-> errors[i].ts, val |-> errors[i]]])
  IN  [i \in 1..Len(sorted) |-> sorted[i].val]

generate_error_log(vehicles) ==
  LET errors == collect_errors(vehicles)
      sorted == SortDesc([i \in 1..Len(errors) |-> [key |-> errors[i].ts, val |-> errors[i]]])
  IN  [i \in 1..Len(sorted) |-> sorted[i].val]

(***************************************************************************)
(* The raw variates explored.                                              *)
(***************************************************************************)
\* clock readings datetime.now() may return, 90 s apart, more than 3 days
\* after the epoch of the model so that every timestamp is positive
Times == {432000, 432090}

\* values of random.random() in hundredths: both sides of every threshold
Rolls == {0, 9, 10, 19, 20, 29, 30, 99}

\* shuffles of the error catalog
Shuffle(u) == IF u = 0 THEN <<1, 2, 3, 4, 5, 6>> ELSE <<6, 5, 4, 3, 2, 1>>

\* every variate of one call of generate_vehicle at the same quantile u
BaseDraw(roll, u) ==
  [ roll |-> roll, carrier |-> u, site |-> u, signal |-> u, rat |-> u,
    drops |-> u, uptime |-> u, err_count |-> u, err_k |-> u,
    err_perm |-> Shuffle(u), pdp_attempts |-> u, pdp_success |-> u,
    loc_updates |-> u, loc_success |-> u, num_events |-> u,
    num_incidents |-> u, ev |-> [e \in 1..12 |-> u],
    inc_type |-> [i \in 1..3 |-> u], inc_hours |-> [i \in 1..3 |-> u],
    last_err |-> u ]

Ends == {0, Res}

\* the draws of one vehicle explored on its own: one group of variates
\* takes every combination of its values, the others stay at a common
\* quantile
VehicleDraws ==
  UNION { UNION {
    { [BaseDraw(roll, b) EXCEPT !.signal = x, !.drops = y, !.uptime = z] :
        x \in 0..Res, y \in 0..Res, z \in 0..Res }
    \cup
    { [BaseDraw(roll, b) EXCEPT !.pdp_attempts = w[1], !.pdp_success = w[2],
                                !.loc_updates = w[3], !.loc_success = w[4]] :
        w \in [1..4 -> Ends] }
    \cup
    { [BaseDraw(roll, b) EXCEPT !.err_count = w[1], !.err_k = w[2],
                                !.err_perm = Shuffle(w[3]), !.last_err = w[4]] :
        w \in [1..4 -> Ends] }
    \cup
    { [BaseDraw(roll, b) EXCEPT !.carrier = x, !.site = w[1], !.rat = w[2]] :
        x \in 0..Res, w \in [1..2 -> Ends] }
    \cup
    { [BaseDraw(roll, b) EXCEPT !.num_events = w[1], !.num_incidents = w[2],
                                !.ev = [e \in 1..12 |-> IF e % 2 = 1 THEN w[3] ELSE w[4]],
                                !.inc_hours = [i \in 1..3 |-> IF i % 2 = 1 THEN w[4] ELSE w[3]]] :
        w \in [1..4 -> Ends] }
    : b \in Ends } : roll \in Rolls }

\* a block of the stream: the variates of one vehicle or one tower, all at
\* the quantile u, and the profile roll
Blocks == [roll : {0, 10, 20, 30}, u : Ends]

\* a tower draws no profile roll
TowerBlocks == {b \in Blocks : b.roll = 0}

VehicleDraw(block) == BaseDraw(block.roll, block.u)

TowerDraw(block) ==
  [ carrier |-> block.u, rat |-> block.u, weak |-> block.u,
    lac |-> block.u, cell |-> block.u ]

(***************************************************************************)
(* main().                                                                 *)
(***************************************************************************)
VARIABLES
  pc,         \* main's position
  nVehicles,  \* args.vehicles
  nTowers,    \* args.towers
  output,     \* args.output: None, or the path of a file
  now,        \* datetime.now(timezone.utc)
  vehicles, towers, errors,
  result,     \* json.dumps(output), in the chunks a writer flushes
  stdout,     \* the document printed
  file,       \* the file at args.output
  file0,      \* that file before the run
  tape,       \* the blocks the seed's stream has produced so far
  pos,        \* blocks of the stream consumed since random.seed
  run,        \* 1, or 2 in a second run with the same seed
  prev,       \* what the first run read and printed
  call, ret, returned   \* a function called on its own, and what it returned

vars == << pc, nVehicles, nTowers, output, now, vehicles, towers, errors,
           result, stdout, file, file0, tape, pos, run, prev,
           call, ret, returned >>

\* the file system's file: absent, or some earlier content
OldFile == [exists |-> TRUE, content |-> << << "old", << >> >> >>]
NoFile  == [exists |-> FALSE, content |-> << >>]

\* the stream extended to `need` blocks: what the seed has already produced
\* stays, the rest is drawn
Extend(t, need, blocks) ==
  IF need <= Len(t) THEN {t}
  ELSE {t \o ext : ext \in [1..(need - Len(t)) -> blocks]}

main_order_towers_first == << "towers", "fleet", "errors" >>

\* the order of main's three generation steps
main_order == << "fleet", "towers", "errors" >>

NextStage(stage) ==
  LET i == CHOOSE j \in 1..Len(main_order) : main_order[j] = stage
  IN  IF i < Len(main_order) THEN main_order[i + 1] ELSE "dump"

generate_fleet_zero_based(count, at, draws) ==
  [k \in 1..count |-> LET i == k - 1 IN generate_vehicle(i, at, draws[k])]

\* [generate_vehicle(i + 1, now) for i in range(args.vehicles)]
generate_fleet(count, at, draws) ==
  [k \in 1..count |-> LET i == k - 1 IN generate_vehicle(i + 1, at, draws[k])]

\* json.dumps(output, indent = 2) of the assembled document
json_dumps(v, t, e) == << << "v", v >>, << "t", t >>, << "errors", e >> >>

Idle ==
  /\ call = << >> /\ ret = << >> /\ returned = FALSE

MainInit ==
  /\ pc = "start"
  /\ nVehicles \in 0..MaxVehicles
  /\ nTowers \in 0..MaxTowers
  /\ now = 0
  /\ vehicles = << >> /\ towers = << >> /\ errors = << >>
  /\ result = << >> /\ stdout = << >>
  /\ tape = << >> /\ pos = 0
  /\ run = 1
  /\ prev = [now |-> 0, nTowers |-> 0, stdout |-> << >>]
  /\ Idle

\* random.seed(args.seed); now = datetime.now(timezone.utc)
Start ==
  /\ pc = "start"
  /\ pos' = 0
  /\ now' \in Times
  /\ pc' = main_order[1]
  /\ UNCHANGED << nVehicles, nTowers, output, vehicles, towers, errors, result,
                  stdout, file, file0, tape, run, prev, call, ret, returned >>

GenerateFleet ==
  /\ pc = "fleet"
  /\ \E t \in Extend(tape, pos + nVehicles, Blocks) :
       /\ tape' = t
       /\ vehicles' = generate_fleet(nVehicles, now,
                        [k \in 1..nVehicles |-> VehicleDraw(t[pos + k])])
  /\ pos' = pos + nVehicles
  /\ pc' = NextStage("fleet")
  /\ UNCHANGED << nVehicles, nTowers, output, now, towers, errors, result,
                  stdout, file, file0, run, prev, call, ret, returned >>

GenerateTowers ==
  /\ pc = "towers"
  /\ \E t \in Extend(tape, pos + nTowers, TowerBlocks) :
       /\ tape' = t
       /\ towers' = generate_cell_towers(nTowers,
                        [k \in 1..nTowers |-> TowerDraw(t[pos + k])])
  /\ pos' = pos + nTowers
  /\ pc' = NextStage("towers")
  /\ UNCHANGED << nVehicles, nTowers, output, now, vehicles, errors, result,
                  stdout, file, file0, run, prev, call, ret, returned >>

GenerateErrors ==
  /\ pc = "errors"
  /\ errors' = generate_error_log(vehicles)
  /\ pc' = NextStage("errors")
  /\ UNCHANGED << nVehicles, nTowers, output, now, vehicles, towers, result,
                  stdout, file, file0, tape, pos, run, prev, call, ret, returned >>

Dump ==
  /\ pc = "dump"
  /\ result' = json_dumps(vehicles, towers, errors)
  /\ pc' = IF output = None THEN "print" ELSE "open"
  /\ UNCHANGED << nVehicles, nTowers, output, now, vehicles, towers, errors,
                  stdout, file, file0, tape, pos, run, prev, call, ret, returned >>

\* print(result)
PrintResult ==
  /\ pc = "print"
  /\ stdout' = result
  /\ pc' = "summary"
  /\ UNCHANGED << nVehicles, nTowers, output, now, vehicles, towers, errors,
                  result, file, file0, tape, pos, run, prev, call, ret, returned >>

\* open(args.output, "w") creates the file or truncates it
OpenFile ==
  /\ pc = "open"
  /\ file' = [exists |-> TRUE, content |-> << >>]
  /\ pc' = "write"
  /\ UNCHANGED << nVehicles, nTowers, output, now, vehicles, towers, errors,
                  result, stdout, file0, tape, pos, run, prev, call, ret, returned >>

\* open raises (no permission, no such directory): nothing is touched
OpenFails ==
  /\ pc = "open"
  /\ pc' = "failed"
  /\ UNCHANGED << nVehicles, nTowers, output, now, vehicles, towers, errors,
                  result, stdout, file, file0, tape, pos, run, prev, call, ret, returned >>

\* f.write(result) and the close of the with block: the buffered writer
\* hands the text to the file a chunk at a time
WriteChunk ==
  /\ pc = "write"
  /\ Len(file.content) < Len(result)
  /\ file' = [file EXCEPT !.content = Append(@, result[Len(@) + 1])]
  /\ pc' = IF Len(file.content) + 1 = Len(result) THEN "confirm" ELSE "write"
  /\ UNCHANGED << nVehicles, nTowers, output, now, vehicles, towers, errors,
                  result, stdout, file0, tape, pos, run, prev, call, ret, returned >>

\* a write raises (disk full, I/O error): the exception leaves the with
\* block, which closes the file as it is
WriteFails ==
  /\ pc = "write"
  /\ pc' = "failed"
  /\ UNCHANGED << nVehicles, nTowers, output, now, vehicles, towers, errors,
                  result, stdout, file, file0, tape, pos, run, prev, call, ret, returned >>

\* print(f"Written ... to {args.output}")
Confirm ==
  /\ pc = "confirm"
  /\ stdout' = << << "Written", Len(vehicles), Len(towers), Len(errors) >> >>
  /\ pc' = "summary"
  /\ UNCHANGED << nVehicles, nTowers, output, now, vehicles, towers, errors,
                  result, file, file0, tape, pos, run, prev, call, ret, returned >>

\* the fleet summary on stderr, and the return
Summary ==
  /\ pc = "summary"
  /\ pc' = "done"
  /\ UNCHANGED << nVehicles, nTowers, output, now, vehicles, towers, errors,
                  result, stdout, file, file0, tape, pos, run, prev, call, ret, returned >>

\* the program is run once more with the same seed and vehicle count
Rerun ==
  /\ pc = "done" /\ run = 1
  /\ prev' = [now |-> now, nTowers |-> nTowers, stdout |-> stdout]
  /\ run' = 2
  /\ nTowers' \in 0..MaxTowers
  /\ pc' = "start"
  /\ now' = 0
  /\ vehicles' = << >> /\ towers' = << >> /\ errors' = << >>
  /\ result' = << >> /\ stdout' = << >>
  /\ UNCHANGED << nVehicles, output, file, file0, tape, pos, call, ret, returned >>

Pipeline ==
  \/ Start
  \/ GenerateFleet
  \/ GenerateTowers
  \/ GenerateErrors
  \/ Dump

\* one run printing the document
Init ==
  /\ MainInit
  /\ output = None
  /\ file = NoFile /\ file0 = NoFile

Next == Pipeline \/ PrintResult \/ Summary

Spec == Init /\ [][Next]_vars

\* one run writing the document to a file
InitFile ==
  /\ MainInit
  /\ output = << "mock_data.json" >>
  /\ file \in {NoFile, OldFile}
  /\ file0 = file

NextFile ==
  Pipeline \/ OpenFile \/ OpenFails \/ WriteChunk \/ WriteFails \/ Confirm \/ Summary

SpecFile == InitFile /\ [][NextFile]_vars

\* two runs with the same seed
NextRerun == Pipeline \/ PrintResult \/ Summary \/ Rerun

SpecRerun == Init /\ [][NextRerun]_vars

(***************************************************************************)
(* The functions called on their own.                                      *)
(***************************************************************************)
MainIdle ==
  /\ pc = "idle"
  /\ nVehicles = 0 /\ nTowers = 0 /\ output = None /\ now = 0
  /\ vehicles = << >> /\ towers = << >> /\ errors = << >>
  /\ result = << >> /\ stdout = << >>
  /\ file = NoFile /\ file0 = NoFile
  /\ tape = << >> /\ pos = 0 /\ run = 1
  /\ prev = [now |-> 0, nTowers |-> 0, stdout |-> << >>]

mainVars == << pc, nVehicles, nTowers, output, now, vehicles, towers, errors,
               result, stdout, file, file0, tape, pos, run, prev >>

Tiers == {"critical", "warning", "minor", "healthy"}

\* assign_health_tier on the inputs around its thresholds
InitTier ==
  /\ MainIdle
  /\ call \in [ signal : (50 - Margin)..(70 + Margin),
                drops  : 0..(8 + Margin),
                uptime : (900 - Margin)..(980 + Margin) ]
  /\ ret = << >> /\ returned = FALSE

Classify ==
  /\ ~returned
  /\ ret' = assign_health_tier(call.signal, call.drops, call.uptime)
  /\ returned' = TRUE
  /\ UNCHANGED << mainVars, call >>

SpecTier == InitTier /\ [][Classify]_vars

\* generate_vehicle on one index, one clock reading and one record of draws
InitVehicle ==
  /\ MainIdle
  /\ call \in [index : 1..(MaxVehicles + 1), now : Times, d : VehicleDraws]
  /\ ret = << >> /\ returned = FALSE

Synthesize ==
  /\ ~returned
  /\ ret' = generate_vehicle(call.index, call.now, call.d)
  /\ returned' = TRUE
  /\ UNCHANGED << mainVars, call >>

SpecVehicle == InitVehicle /\ [][Synthesize]_vars

\* a vehicle as far as generate_error_log reads it
LogVehicle(index, tier, lastErr, errTypes) ==
  LET carrier_info == CARRIERS[1 + (index % Len(CARRIERS))]
      site         == CELL_SITES(carrier_info.carrier)[1 + (index % 2)]
  IN  [ nm |-> << "Demo", index >>, imsi |-> << "21401", index >>,
        tier |-> tier, rat |-> "LTE", carrier |-> carrier_info.carrier,
        mcc |-> carrier_info.mcc, mnc |-> carrier_info.mnc,
        lac |-> site.lac, cell |-> site.cell,
        country |-> carrier_info.country,
        errTypes |-> errTypes, lastErr |-> lastErr ]

LogStamps == {None} \cup {MinuteFormat(432000 - 60 * m) : m \in {10, 300}}

LogErrTypes ==
  { << >>, << ERROR_TYPES[1] >>, << ERROR_TYPES[2], ERROR_TYPES[1] >> }

\* generate_error_log on any list of vehicles
InitErrLog ==
  /\ MainIdle
  /\ \E n \in 0..MaxLogVehicles :
       \E f \in [1..n -> [tier : Tiers, lastErr : LogStamps, errTypes : LogErrTypes]] :
         call = [i \in 1..n |-> LogVehicle(i, f[i].tier, f[i].lastErr, f[i].errTypes)]
  /\ ret = << >> /\ returned = FALSE

Aggregate ==
  /\ ~returned
  /\ ret' = generate_error_log(call)
  /\ returned' = TRUE
  /\ UNCHANGED << mainVars, call >>

SpecErrLog == InitErrLog /\ [][Aggregate]_vars

(***************************************************************************)
(* Properties.                                                             *)
(***************************************************************************)
Range(seq) == {seq[i] : i \in 1..Len(seq)}

\* C1 (SpecRerun): a second run with the same seed and the same vehicle and
\* tower counts prints the document the first run printed, timestamps
\* included.
C1_SameSeedSameDocument ==
  (run = 2 /\ pc = "done" /\ nTowers = prev.nTowers) => stdout = prev.stdout

\* C2 (SpecVehicle): the tier of a generated vehicle is the classifier's
\* value on the sig, drops and uptime stored in the same record.
C2_TierIsClassifierOfRecord ==
  returned => ret.tier = assign_health_tier(ret.sig, ret.drops, ret.uptime)

\* a vehicle whose tier differs from the profile that was sampled
C2_TierNotProfile ==
  returned /\ ret.tier # ret.profile

C4_Qualifies(v) == v.tier # "healthy" /\ v.lastErr # None

\* C4 (SpecErrLog): the error log holds exactly one entry for each pair of
\* a vehicle with tier # healthy and lastErr non-null and one of its error
\* types, and no other entry; an entry carries its vehicle's lastErr, tier
\* and mcc-mnc-lac-cell; the log is sorted non-increasing by ts.
C4_ErrorLogIsDerived ==
  returned =>
    /\ \A i \in 1..Len(call) : \A c \in Range(ERROR_TYPES) :
         Cardinality({k \in 1..Len(ret) :
                        ret[k].vehicle = call[i].nm /\ ret[k].errCode = c})
           = IF C4_Qualifies(call[i]) /\ c \in Range(call[i].errTypes) THEN 1 ELSE 0
    /\ \A k \in 1..Len(ret) : \E i \in 1..Len(call) :
         /\ ret[k].vehicle = call[i].nm
         /\ ret[k].ts = call[i].lastErr
         /\ ret[k].tier = call[i].tier
         /\ ret[k].cell = << call[i].mcc, "-", call[i].mnc, "-",
                             call[i].lac, "-", call[i].cell >>
    /\ \A k \in 1..(Len(ret) - 1) : TsLeq(ret[k + 1].ts, ret[k].ts)

\* a healthy vehicle with a lastErr and error types is skipped and another
\* vehicle contributes one entry for each of its two error types
C4_SkippedAndLogged ==
  /\ returned
  /\ \E i \in 1..Len(call) :
       call[i].tier = "healthy" /\ call[i].lastErr # None /\ call[i].errTypes # << >>
  /\ \E i \in 1..Len(call) : C4_Qualifies(call[i]) /\ Len(call[i].errTypes) = 2
  /\ Len(ret) = 2

\* C5 (Spec): the printed document has nVehicles entries under "v", numbered
\* 1..nVehicles in order, and nTowers entries under "t"; with both counts 0
\* it is {"v": [], "t": [], "errors": []}.
C5_RequestedCounts ==
  pc = "done" =>
    /\ Len(stdout) = 3
    /\ stdout[1][1] = "v" /\ stdout[2][1] = "t" /\ stdout[3][1] = "errors"
    /\ Len(stdout[1][2]) = nVehicles
    /\ \A i \in 1..nVehicles :
         /\ stdout[1][2][i].nm = << "Demo", i >>
         /\ stdout[1][2][i].imsi = << "21401", i >>
    /\ Len(stdout[2][2]) = nTowers
    /\ (nVehicles = 0 /\ nTowers = 0) =>
         stdout = << << "v", << >> >>, << "t", << >> >>, << "errors", << >> >> >>

\* a finished run that was asked for two vehicles and one tower
C5_TwoVehiclesOneTower ==
  pc = "done" /\ nVehicles = 2 /\ nTowers = 1 /\ Len(stdout) = 3

\* C6 (SpecFile): when writing the output file fails, the file holds the
\* complete document or is as it was before the run.
C6_NoPartialFile ==
  pc = "failed" =>
    \/ file = file0
    \/ file.exists /\ file.content = result

\* C7 (SpecVehicle): a vehicle of the healthy profile has pdpSuccess <=
\* pdpAttempts and locSuccess <= locUpdates; vehicles of other profiles
\* need not (the witness).
C7_HealthySuccessWithinAttempts ==
  (returned /\ ret.profile = "healthy") =>
    /\ ret.pdpSuccess <= ret.pdpAttempts
    /\ ret.locSuccess <= ret.locUpdates

\* a vehicle with more PDP successes than attempts and more location
\* successes than updates
C7_SuccessExceedsAttempts ==
  /\ returned
  /\ ret.pdpSuccess > ret.pdpAttempts
  /\ ret.locSuccess > ret.locUpdates

\* C8 as stated (SpecVehicle): some draws give a vehicle of the critical
\* profile a tier other than critical.
C8_CriticalProfileCanMissCritical ==
  \E d \in VehicleDraws :
    /\ sample_profile(d.roll) = "critical"
    /\ generate_vehicle(call.index, call.now, d).tier # "critical"

\* C8 as amended (SpecVehicle): a vehicle of the critical profile is always
\* tier critical; the tier can differ from the profile for a vehicle of the
\* warning profile, which can be tier minor (the witness).
C8_CriticalProfileIsCritical ==
  returned =>
    /\ ret.profile = "critical" => ret.tier = "critical"
    /\ ret.profile = "warning" => ret.tier \in {"warning", "minor"}

\* a vehicle of the warning profile classified minor
C8_WarningProfileTierMinor ==
  returned /\ ret.profile = "warning" /\ ret.tier = "minor"

\* C9 (SpecVehicle): lastErr is non-null exactly when errCount > 0 and the
\* profile is critical, warning or minor; a vehicle of the healthy profile
\* has lastErr null.
C9_LastErrIffErrorsAndUnhealthyProfile ==
  returned =>
    /\ (ret.lastErr # None) <=>
         (ret.errCount > 0 /\ ret.profile \in {"critical", "warning", "minor"})
    /\ ret.profile = "healthy" => ret.lastErr = None

\* a vehicle of the healthy profile with one error, an error type and no
\* lastErr
C9_HealthyProfileErrorNoLastErr ==
  /\ returned
  /\ ret.profile = "healthy" /\ ret.errCount = 1 /\ ret.errTypes # << >>
  /\ ret.lastErr = None

\* C10 (SpecRerun): a second run with the same seed, clock reading and
\* vehicle count prints the same vehicles and the same error log whatever
\* its tower count; a run consumes one block of the stream per vehicle and
\* per tower, none for the error log.
C10_FleetIndependentOfTowers ==
  /\ (run = 2 /\ pc = "done" /\ now = prev.now) =>
        /\ stdout[1] = prev.stdout[1]
        /\ stdout[3] = prev.stdout[3]
  /\ pc = "done" => pos = nVehicles + nTowers

\* a second run with another tower count, a vehicle and an error log
C10_OtherTowerCount ==
  /\ run = 2 /\ pc = "done" /\ now = prev.now
  /\ nTowers # prev.nTowers
  /\ nVehicles >= 1
  /\ errors # << >>

=============================================================================
